---- MODULE Spec2Model ----
(***************************************************************************)
(* The retail-sales ETL pipeline: run_pipeline (scripts/pipeline.py) over  *)
(* DataIngestion, DataTransformation (etl/transforming.py) and DataLoading *)
(* (etl/loading.py), writing the star schema of models/schema.py to a      *)
(* PostgreSQL store.                                                       *)
(*                                                                         *)
(* A source DataFrame is [none, cols |-> set of column names, rows |->     *)
(* sequence of rows], a row a function from the frame's columns to cells;  *)
(* none marks Python's None in its place.  The cells                       *)
(* of the numeric columns (Row ID, Sales, Profit; Profit Margin in         *)
(* hundredths) are integers, all other cells                               *)
(* are strings.  "City" stands for the six descriptive customer columns    *)
(* (Segment, Country, City, State, Postal Code, Region) and "Category" for *)
(* Category and Sub-Category: the code always handles each group as one.   *)
(* Every frame of the model has a "Row ID" column.                         *)
(*                                                                         *)
(* schema.py names the customer class DimCustimer while loading.py imports *)
(* DimCustomer; the model takes them as the one class of table             *)
(* dim_customer.  The store is PostgreSQL (config/database.py): a          *)
(* statement that fails aborts its transaction, and COMMIT of an aborted   *)
(* transaction rolls it back.  The store is reachable throughout, so       *)
(* create_tables succeeds and a load fails only on a constraint.           *)
(*                                                                         *)
(* Spec is the pipeline run after run.  StageSpec is run_transformation's  *)
(* cleaning and enrichment taken stage by stage, on extracts of up to      *)
(* MaxStageRows lines that may carry a Profit column.                      *)
(***************************************************************************)
EXTENDS Integers, Sequences, FiniteSets, TLC

\* ------------------------------------------------------------------ cells

\* A table-shaped value: a DataFrame with the given rows, or Python's None
\* (run_ingestion's "no dataset", an absent dimension)
Frame(rows) == [none |-> FALSE, rows |-> rows]
None == [none |-> TRUE, rows |-> <<>>]

\* None in the place of a source frame (which carries its column names)
NoFrame == [none |-> TRUE, cols |-> {}, rows |-> <<>>]

\* a missing cell of the source file (pandas NaN), per cell type
NaNStr == "NaN"
NaNNum == -1

\* the value to_datetime(errors='coerce') gives an unparseable date
NaT == "NaT"

\* SQL NULL in a stored row, per column type
NullStr == "NULL"
NullNum == -2

NumericColumns == {"Row ID", "Sales", "Profit", "Profit Margin"}

IsNa(c, v) == IF c \in NumericColumns THEN v = NaNNum ELSE v = NaNStr

\* ------------------------------------------------------------ sequences

Range(s) == {s[i] : i \in DOMAIN s}

\* pandas drop_duplicates / unique: the first occurrence of each value, in order
RECURSIVE DropDuplicates(_)
DropDuplicates(s) ==
  IF s = <<>> THEN <<>>
  ELSE LET init == DropDuplicates(SubSeq(s, 1, Len(s) - 1))
           last == s[Len(s)]
       IN IF last \in Range(init) THEN init ELSE Append(init, last)

Map(s, F(_)) == [i \in DOMAIN s |-> F(s[i])]

\* ------------------------------------------------------------ clean_data

critical_columns == {"Order ID", "Product ID", "Customer ID", "Sales"}

date_columns == <<"Order Date", "Ship Date">>

\* variant: the missing cells are never counted, so no row is dropped or filled
missing_values_ignored(df) == 0

\* clean_df.isnull().sum().sum()
missing_values(df) ==
  Cardinality({<<i, c>> \in (DOMAIN df.rows) \X df.cols : IsNa(c, df.rows[i][c])})

\* read_csv's dtype of a column: a numeric column, or a column with no value
\* at all (read as float64), is selected by select_dtypes(include=['number'])
IsNumericDtype(df, c) ==
  \/ c \in NumericColumns
  \/ df.rows # <<>> /\ \A i \in DOMAIN df.rows : IsNa(c, df.rows[i][c])

\* the defaults of fillna: 0 for a numeric column, 'Unknown' for a string column
FillValue(df, c) ==
  IF c \in NumericColumns THEN 0
  ELSE IF IsNumericDtype(df, c) THEN "0" ELSE "Unknown"

\* dropna(subset=critical_columns) raises KeyError when a critical column is absent
CleanRaises(df) == missing_values(df) > 0 /\ ~(critical_columns \subseteq df.cols)

\* the source's date strings (day first) and the calendar dates they parse to
DateStrings == <<"05/01/2024", "06/01/2024", "07/01/2024">>
CalendarDates == <<"2024-01-05", "2024-01-06", "2024-01-07">>
Epoch == "1970-01-01"

\* pd.to_datetime(col, dayfirst=True, errors='coerce') on one cell
to_datetime(v) ==
  IF \E k \in DOMAIN DateStrings : DateStrings[k] = v
  THEN CalendarDates[CHOOSE k \in DOMAIN DateStrings : DateStrings[k] = v]
  ELSE IF v = "0" THEN Epoch
  ELSE NaT

\* position of a calendar date in time (Epoch first); NaT has none
Ordinal(d) ==
  IF d = Epoch THEN 0
  ELSE CHOOSE k \in DOMAIN CalendarDates : CalendarDates[k] = d

\* clean_data on a frame it does not raise on
clean_data(df) ==
  LET missing == missing_values(df) > 0
      kept == IF missing
              THEN SelectSeq(df.rows,
                     LAMBDA r : \A c \in critical_columns : ~IsNa(c, r[c]))
              ELSE df.rows
      Fill(r) == [c \in df.cols |->
                   IF missing /\ c \notin critical_columns /\ IsNa(c, r[c])
                   THEN FillValue(df, c) ELSE r[c]]
      filled == Map(kept, Fill)
      unique == DropDuplicates(filled)
      Parse(r) == [c \in df.cols |->
                    IF c \in Range(date_columns) THEN to_datetime(r[c]) ELSE r[c]]
  IN [none |-> FALSE, cols |-> df.cols, rows |-> Map(unique, Parse)]

\* -------------------------------------------------------- transform_data

\* transform_data: Profit defaults to Sales * 0.2 when the frame has no Profit
\* column; Profit Margin is Profit / Sales where Sales > 0, else 0, kept in
\* hundredths.  The calendar, quantity and discount columns it adds are not
\* read by the dimension or key logic and are left out.
transform_data(df) ==
  LET hasSales == "Sales" \in df.cols
      addProfit == hasSales /\ "Profit" \notin df.cols
      hasProfit == addProfit \/ "Profit" \in df.cols
      addMargin == hasSales /\ hasProfit
      cols == df.cols \union (IF addProfit THEN {"Profit"} ELSE {})
                      \union (IF addMargin THEN {"Profit Margin"} ELSE {})
      Profit(r) == IF addProfit THEN (r["Sales"] * 2) \div 10 ELSE r["Profit"]
      Row(r) == [c \in cols |->
                  IF c = "Profit" THEN Profit(r)
                  ELSE IF c = "Profit Margin"
                       THEN IF r["Sales"] > 0
                            THEN (Profit(r) * 100) \div r["Sales"] ELSE 0
                  ELSE r[c]]
  IN [none |-> FALSE, cols |-> cols, rows |-> Map(df.rows, Row)]

\* ---------------------------------------------- prepare_dimensional_data

CustomerColumns == <<"Customer ID", "Customer Name", "City">>
ProductColumns == <<"Product ID", "Category", "Product Name">>

\* col.lower().replace(" ", "_")
SnakeCase(c) ==
  CASE c = "Customer ID" -> "customer_id"
    [] c = "Customer Name" -> "customer_name"
    [] c = "City" -> "city"
    [] c = "Product ID" -> "product_id"
    [] c = "Category" -> "category"
    [] c = "Product Name" -> "product_name"
    [] c = "Row ID" -> "row_id"
    [] c = "Order ID" -> "order_id"
    [] c = "Sales" -> "sales"
    [] c = "Profit" -> "profit"
    [] c = "Profit Margin" -> "profit_margin"

\* variant: the projection without drop_duplicates()
ProjectKeepingDuplicates(df, columns) ==
  LET Sel(r) == [k \in {SnakeCase(c) : c \in Range(columns)} |->
                  r[CHOOSE c \in Range(columns) : SnakeCase(c) = k]]
  IN Map(df.rows, Sel)

\* df[columns].drop_duplicates() with the columns renamed
Project(df, columns) ==
  LET Sel(r) == [k \in {SnakeCase(c) : c \in Range(columns)} |->
                  r[CHOOSE c \in Range(columns) : SnakeCase(c) = k]]
  IN DropDuplicates(Map(df.rows, Sel))

\* df[[...]] raises KeyError when a listed column is absent
PrepareRaises(df) ==
  \/ {"Customer ID", "Customer Name"} \subseteq df.cols
       /\ ~(Range(CustomerColumns) \subseteq df.cols)
  \/ {"Product ID", "Product Name"} \subseteq df.cols
       /\ ~(Range(ProductColumns) \subseteq df.cols)

BuildDimCustomer(df) ==
  IF {"Customer ID", "Customer Name"} \subseteq df.cols
  THEN Frame(Project(df, CustomerColumns)) ELSE None

BuildDimProduct(df) ==
  IF {"Product ID", "Product Name"} \subseteq df.cols
  THEN Frame(Project(df, ProductColumns)) ELSE None

\* the date columns the frame has, Order Date first
PresentDateColumns(df) == SelectSeq(date_columns, LAMBDA c : c \in df.cols)

RECURSIVE Concat(_)
Concat(ss) == IF ss = <<>> THEN <<>> ELSE Head(ss) \o Concat(Tail(ss))

\* all_dates: per date column its unique values, concatenated, then
\* drop_duplicates().reset_index(drop=True); no sort is applied
AllDates(df) ==
  LET Column(c) == DropDuplicates(Map(df.rows, LAMBDA r : r[c]))
  IN DropDuplicates(Concat(Map(PresentDateColumns(df), Column)))

\* dim_date['date_id'] = range(1, len(dim_date) + 1)
AssignDateIds(dates) == [i \in DOMAIN dates |-> [date_id |-> i, date |-> dates[i]]]

BuildDimDate(df) ==
  IF PresentDateColumns(df) # <<>> THEN Frame(AssignDateIds(AllDates(df))) ELSE None

\* dict(zip(dim_date['date'], dim_date['date_id'])) applied to one date
DateMap(dim_date, d) ==
  (CHOOSE rec \in Range(dim_date.rows) : rec.date = d).date_id

fact_columns == <<"Row ID", "Order ID", "Customer ID", "Product ID",
                  "Sales", "Profit", "Profit Margin">>

FactNumeric == {"row_id", "sales", "profit", "profit_margin"}

\* fact_sales: the available fact columns of each row plus the date keys; a
\* column the frame lacks is absent from the record and stored as NULL
BuildFact(df, dim_date) ==
  LET Key(r, c) == IF ~dim_date.none /\ c \in df.cols
                   THEN DateMap(dim_date, r[c]) ELSE NullNum
      Row(r) ==
        [k \in {SnakeCase(c) : c \in Range(fact_columns)} |->
           LET c == CHOOSE x \in Range(fact_columns) : SnakeCase(x) = k
           IN IF c \in df.cols THEN r[c]
              ELSE IF k \in FactNumeric THEN NullNum ELSE NullStr]
        @@ [order_date_id |-> Key(r, "Order Date"),
            ship_date_id |-> Key(r, "Ship Date")]
  IN Frame(Map(df.rows, Row))

prepare_dimensional_data(df) ==
  LET dim_date == BuildDimDate(df)
  IN [none |-> FALSE,
      dim_customer |-> BuildDimCustomer(df),
      dim_product |-> BuildDimProduct(df),
      dim_date |-> dim_date,
      fact_sales |-> BuildFact(df, dim_date)]

\* run_transformation's None
NoData == [none |-> TRUE, dim_customer |-> None, dim_product |-> None,
           dim_date |-> None, fact_sales |-> None]

\* cleaned_df and transformed_df as run_transformation holds them when it
\* ends: unassigned (None here) when clean_data raised
CleanedOf(df) == IF CleanRaises(df) THEN NoFrame ELSE clean_data(df)
TransformedOf(df) ==
  IF CleanRaises(df) THEN NoFrame ELSE transform_data(clean_data(df))

\* run_transformation: None when any stage raises, else the dimensional data
run_transformation(df) ==
  IF CleanRaises(df) THEN NoData
  ELSE LET transformed == transform_data(clean_data(df))
       IN IF PrepareRaises(transformed) THEN NoData
          ELSE prepare_dimensional_data(transformed)

\* ------------------------------------------------------- models/schema.py

\* the relational store before any run: the tables are not created yet.  A
\* table is the sequence of its rows in insertion order.
EmptyStore == [created |-> FALSE, dim_date |-> <<>>, dim_customer |-> <<>>,
               dim_product |-> <<>>, fact_sales |-> <<>>]

Tables == {"dim_date", "dim_customer", "dim_product", "fact_sales"}

\* primary_key=True: the column whose value identifies a row of the table
PrimaryKey(table) ==
  CASE table = "dim_customer" -> "customer_id"
    [] table = "dim_product" -> "product_id"
    [] table = "dim_date" -> "date_id"
    [] table = "fact_sales" -> "row_id"

\* variant: the primary key is not enforced as unique
UniqueColumnsNoPrimaryKey(table) == IF table = "dim_date" THEN {"date"} ELSE {}

\* the table's unique columns: its primary key, and unique=True on dim_date.date
UniqueColumns(table) ==
  {PrimaryKey(table)} \union (IF table = "dim_date" THEN {"date"} ELSE {})

\* nullable=False (a primary key is never null either); NaT is no Date value
NotNullColumns(table) ==
  {PrimaryKey(table)} \union
    (CASE table = "dim_date" -> {"date"}
       [] table = "dim_product" -> {"product_name"}
       [] table = "fact_sales" -> {"order_id"}
       [] OTHER -> {})

IsNull(v) == v \in {NullStr, NaNStr, NaT}

NotNullViolation(table, rec) ==
  \E c \in NotNullColumns(table) :
    IF c \in FactNumeric \union {"date_id"} THEN rec[c] = NullNum ELSE IsNull(rec[c])

\* a row of `rows` holding the record's value in one of the given unique columns
Conflicts(columns, rec, rows) ==
  \E x \in Range(rows) : \E c \in columns : x[c] = rec[c]

\* ForeignKey(...): the dimension table and column each fact column refers to
ForeignKeys ==
  {[column |-> "customer_id", table |-> "dim_customer", ref |-> "customer_id"],
   [column |-> "product_id", table |-> "dim_product", ref |-> "product_id"],
   [column |-> "order_date_id", table |-> "dim_date", ref |-> "date_id"],
   [column |-> "ship_date_id", table |-> "dim_date", ref |-> "date_id"]}

FkNull(fk, rec) ==
  IF fk.ref = "date_id" THEN rec[fk.column] = NullNum ELSE rec[fk.column] = NullStr

\* variant: the fact columns carry no foreign-key constraint
NoForeignKeyViolation(rec, st) == FALSE

\* a non-null foreign key of the fact row with no row to refer to
ForeignKeyViolation(rec, st) ==
  \E fk \in ForeignKeys :
    /\ ~FkNull(fk, rec)
    /\ ~\E x \in Range(st[fk.table]) : x[fk.ref] = rec[fk.column]

\* ------------------------------------------------ load_dimension_table

\* what one call of a load function leaves: the table's rows, the count it
\* returns, and whether it ended in its except branch (rollback, return 0)
Loaded(rows, count) == [rows |-> rows, count |-> count, raised |-> FALSE]
RolledBack(rows) == [rows |-> rows, count |-> 0, raised |-> TRUE]

\* db.commit(): PostgreSQL ends a transaction in which a statement failed by
\* rolling it back, without an error
Commit(rows, pending, aborted) == IF aborted THEN rows ELSE rows \o pending

\* the loop over the records of one dimension frame, in one transaction.
\* pending: rows inserted so far; aborted: a statement of the transaction
\* failed, so PostgreSQL refuses every later one (InFailedSqlTransaction).
RECURSIVE DimensionLoop(_, _, _, _, _, _, _, _)
DimensionLoop(records, table, key_column, rows, i, pending, insert_count, aborted) ==
  IF i > Len(records)
  THEN Loaded(Commit(rows, pending, aborted), insert_count)
  ELSE LET record == records[i]
           visible == rows \o pending
       IN IF aborted \/ NotNullViolation(table, record)
          THEN RolledBack(rows)
          ELSE IF Conflicts({key_column}, record, visible)
          THEN \* on_conflict_do_nothing: no row, no error, still counted
               DimensionLoop(records, table, key_column, rows, i + 1,
                             pending, insert_count + 1, FALSE)
          ELSE IF Conflicts(UniqueColumns(table), record, visible)
          THEN \* UniqueViolation: logged as a duplicate and skipped
               DimensionLoop(records, table, key_column, rows, i + 1,
                             pending, insert_count, TRUE)
          ELSE DimensionLoop(records, table, key_column, rows, i + 1,
                             Append(pending, record), insert_count + 1, FALSE)

load_dimension_table(frame, table, key_column, rows) ==
  IF frame.rows = <<>> THEN Loaded(rows, 0)
  ELSE DimensionLoop(frame.rows, table, key_column, rows, 1, <<>>, 0, FALSE)

\* ------------------------------------------------------ load_fact_table

\* `if row_id:` -- 0 is falsy
Truthy(row_id) == row_id # 0

\* the existence check: db.query(FactSales).filter(row_id == ...).first()
\* sees the committed rows only (the session does not autoflush)
Existing(record, rows) ==
  Truthy(record.row_id) /\ \E x \in Range(rows) : x.row_id = record.row_id

\* the records the loop adds to the session, in order
NewRecords(records, rows) == SelectSeq(records, LAMBDA r : ~Existing(r, rows))

\* variant: the rows flushed before the failing one stay in the table
RECURSIVE FlushKeepingFlushed(_, _, _, _)
FlushKeepingFlushed(added, st, i, pending) ==
  IF i > Len(added) THEN Loaded(st.fact_sales \o pending, Len(added))
  ELSE LET record == added[i]
       IN IF \/ NotNullViolation("fact_sales", record)
             \/ Conflicts(UniqueColumns("fact_sales"), record,
                          st.fact_sales \o pending)
             \/ ForeignKeyViolation(record, st)
          THEN RolledBack(st.fact_sales \o pending)
          ELSE FlushKeepingFlushed(added, st, i + 1, Append(pending, record))

\* db.commit() flushes the added rows one by one; the first row a constraint
\* refuses raises
RECURSIVE Flush(_, _, _, _)
Flush(added, st, i, pending) ==
  IF i > Len(added) THEN Loaded(st.fact_sales \o pending, Len(added))
  ELSE LET record == added[i]
       IN IF \/ NotNullViolation("fact_sales", record)
             \/ Conflicts(UniqueColumns("fact_sales"), record,
                          st.fact_sales \o pending)
             \/ ForeignKeyViolation(record, st)
          THEN RolledBack(st.fact_sales)
          ELSE Flush(added, st, i + 1, Append(pending, record))

load_fact_table(frame, st) ==
  IF frame.rows = <<>> THEN Loaded(st.fact_sales, 0)
  ELSE Flush(NewRecords(frame.rows, st.fact_sales), st, 1, <<>>)

\* ---------------------------------------------------------- run_loading

\* variant: the dimension loads in the order customer, product, date
dim_tables_customer_first ==
  <<[table |-> "dim_customer", key_column |-> "customer_id"],
    [table |-> "dim_product", key_column |-> "product_id"],
    [table |-> "dim_date", key_column |-> "date_id"]>>

\* dim_tables: the dimension loads in the order run_loading makes them
dim_tables ==
  <<[table |-> "dim_date", key_column |-> "date_id"],
    [table |-> "dim_customer", key_column |-> "customer_id"],
    [table |-> "dim_product", key_column |-> "product_id"]>>

\* -------------------------------------------------------------- batches

\* bounds of the batches a run can ingest
MaxRows == 2
MaxRowId == 1
MaxRuns == 2

AllColumns ==
  {"Row ID", "Order ID", "Customer ID", "Customer Name", "City", "Product ID",
   "Product Name", "Category", "Order Date", "Ship Date", "Sales"}

\* one source line of a complete extract
SourceRow(row_id, customer, city, category, order_date, ship_date) ==
  [c \in AllColumns |->
     CASE c = "Row ID" -> row_id
       [] c = "Order ID" -> "o1"
       [] c = "Customer ID" -> customer
       [] c = "Customer Name" -> "n1"
       [] c = "City" -> city
       [] c = "Product ID" -> "p1"
       [] c = "Product Name" -> "pn1"
       [] c = "Category" -> category
       [] c = "Order Date" -> order_date
       [] c = "Ship Date" -> ship_date
       [] c = "Sales" -> 100]

SourceFrame(cols, rows) ==
  [none |-> FALSE, cols |-> cols,
   rows |-> Map(rows, LAMBDA r : [c \in cols |-> r[c]])]

SeqsUpTo(S, n) == UNION {[1..k -> S] : k \in 0..n}

RowIds == 0..MaxRowId

\* lines that differ in their dates: calendar dates in either column, or an
\* order date that does not parse
DateRows ==
  {SourceRow(id, "c1", "x", "k1", od, sd) :
     id \in RowIds, od \in Range(DateStrings) \union {"n/a"},
     sd \in {DateStrings[1], DateStrings[2]}}

\* lines that differ in the descriptive attributes of the customer and of
\* the product
CustomerRows ==
  {SourceRow(id, "c1", a[1], a[2], DateStrings[1], DateStrings[1]) :
     id \in RowIds, a \in {<<"x", "k1">>, <<"y", "k1">>, <<"x", "k2">>}}

\* one-line extracts that lack columns or hold a missing cell
DroppedColumns ==
  {{}} \union {{c} : c \in AllColumns \ {"Row ID"}}
       \union {{"Order Date", "Ship Date"}}

MissingCells == {{}, {"City"}, {"Customer ID"}}

WithMissing(row, cells) ==
  [c \in DOMAIN row |->
     IF c \in cells THEN (IF c \in NumericColumns THEN NaNNum ELSE NaNStr)
     ELSE row[c]]

ColumnFrames ==
  UNION {{SourceFrame(AllColumns \ drop,
            <<WithMissing(SourceRow(1, "c1", "x", "k1", DateStrings[1], DateStrings[2]),
                          cells)>>) :
            cells \in {m \in MissingCells : m \cap drop = {}}} :
         drop \in DroppedColumns}

\* the extracts run_ingestion can return
Batches ==
  {SourceFrame(AllColumns, rows) : rows \in SeqsUpTo(DateRows, MaxRows)}
  \union {SourceFrame(AllColumns, rows) : rows \in SeqsUpTo(CustomerRows, MaxRows)}
  \union ColumnFrames

\* extracts with a Profit column, for the cleaning and enrichment stages:
\* lines that differ in Row ID, Customer ID, Sales and Profit, the Customer
\* ID or the Profit possibly missing
MaxStageRows == 3

StageColumns == AllColumns \union {"Profit"}

StageRow(row_id, customer, sales, profit) ==
  [c \in StageColumns |->
     CASE c = "Sales" -> sales
       [] c = "Profit" -> profit
       [] OTHER -> SourceRow(row_id, customer, "x", "k1",
                             DateStrings[1], DateStrings[1])[c]]

StageRows ==
  {StageRow(id, customer, sales, profit) :
     id \in {1, 2}, customer \in {"c1", NaNStr}, sales \in {0, 100},
     profit \in {NaNNum, 0, 30}}

\* with every column, without the Profit column, without the Sales column
StageDropped == {{}, {"Profit"}, {"Sales"}}

StageBatches ==
  {SourceFrame(StageColumns \ drop, rows) :
     drop \in StageDropped, rows \in SeqsUpTo(StageRows, MaxStageRows)}

\* ----------------------------------------------------------------- state

VARIABLES
  pc,                \* where run_pipeline stands: "idle", "ingested",
                     \* "transformed", "loading", "returned"
  df,                \* the frame run_ingestion returned in this run
  cleaned_df,        \* run_transformation's cleaned_df, once clean_data returned
  transformed_df,    \* run_transformation's transformed_df, once
                     \* transform_data returned
  dimensional_data,  \* run_transformation's result in this run
  store,             \* the relational store: whether its tables are
                     \* created, and the rows of each
  step,              \* run_loading's position: 1..3 in dim_tables, 4 the fact load
  loads,             \* this run's load calls, in order: table, count, raised
  result,            \* run_pipeline's return value, once pc = "returned"
  runs,              \* number of runs started
  startStore,        \* the store as this run found it
  rerun              \* whether this run ingested what the run before it did

vars == <<pc, df, cleaned_df, transformed_df, dimensional_data, store, step,
          loads, result, runs, startStore, rerun>>

Init ==
  /\ pc = "idle"
  /\ df = NoFrame
  /\ cleaned_df = NoFrame
  /\ transformed_df = NoFrame
  /\ dimensional_data = NoData
  /\ store = EmptyStore
  /\ step = 0
  /\ loads = <<>>
  /\ result = FALSE
  /\ runs = 0
  /\ startStore = EmptyStore
  /\ rerun = FALSE

\* ------------------------------------------------------------ run_pipeline

\* the scheduler starts a run; run_ingestion returns a frame
Ingest ==
  /\ pc \in {"idle", "returned"}
  /\ runs < MaxRuns
  /\ \E d \in Batches : df' = d /\ rerun' = (runs > 0 /\ d = df)
  /\ pc' = "ingested"
  /\ runs' = runs + 1
  /\ startStore' = store
  /\ loads' = <<>>
  /\ step' = 0
  /\ cleaned_df' = NoFrame
  /\ transformed_df' = NoFrame
  /\ dimensional_data' = NoData
  /\ UNCHANGED <<store, result>>

\* the scheduler starts a run; run_ingestion returns None: the run fails
IngestFails ==
  /\ pc \in {"idle", "returned"}
  /\ runs < MaxRuns
  /\ df' = NoFrame
  /\ pc' = "returned"
  /\ result' = FALSE
  /\ runs' = runs + 1
  /\ startStore' = store
  /\ rerun' = (runs > 0 /\ df.none)
  /\ loads' = <<>>
  /\ step' = 0
  /\ cleaned_df' = NoFrame
  /\ transformed_df' = NoFrame
  /\ dimensional_data' = NoData
  /\ UNCHANGED store

\* variant: the run goes on to loading whatever run_transformation returned
TransformUnchecked ==
  /\ pc = "ingested"
  /\ cleaned_df' = CleanedOf(df)
  /\ transformed_df' = TransformedOf(df)
  /\ dimensional_data' = run_transformation(df)
  /\ pc' = "transformed"
  /\ UNCHANGED <<df, store, step, loads, result, runs, startStore, rerun>>

\* run_transformation; None fails the run
Transform ==
  /\ pc = "ingested"
  /\ cleaned_df' = CleanedOf(df)
  /\ transformed_df' = TransformedOf(df)
  /\ dimensional_data' = run_transformation(df)
  /\ IF dimensional_data'.none
     THEN pc' = "returned" /\ result' = FALSE
     ELSE pc' = "transformed" /\ UNCHANGED result
  /\ UNCHANGED <<df, store, step, loads, runs, startStore, rerun>>

\* run_loading begins: create_tables (create_all creates what is absent)
CreateTables ==
  /\ pc = "transformed"
  /\ store' = [store EXCEPT !.created = TRUE]
  /\ pc' = "loading"
  /\ step' = 1
  /\ UNCHANGED <<df, cleaned_df, transformed_df, dimensional_data, loads, result,
                 runs, startStore, rerun>>

\* variant: a load that raises is not caught in load_dimension_table, so
\* run_loading's own handler ends the run with False
LoadDimensionPropagating ==
  /\ pc = "loading"
  /\ step \in DOMAIN dim_tables
  /\ LET t == dim_tables[step]
         frame == dimensional_data[t.table]
         out == load_dimension_table(frame, t.table, t.key_column, store[t.table])
     IN IF frame.none
        THEN UNCHANGED <<store, loads, pc, result>> /\ step' = step + 1
        ELSE /\ store' = [store EXCEPT ![t.table] = out.rows]
             /\ loads' = Append(loads, [table |-> t.table, count |-> out.count,
                                        raised |-> out.raised])
             /\ IF out.raised
                THEN pc' = "returned" /\ result' = FALSE /\ UNCHANGED step
                ELSE step' = step + 1 /\ UNCHANGED <<pc, result>>
  /\ UNCHANGED <<df, cleaned_df, transformed_df, dimensional_data, runs,
                 startStore, rerun>>

\* one turn of the loop over dim_tables: a frame that is not None is loaded
LoadDimension ==
  /\ pc = "loading"
  /\ step \in DOMAIN dim_tables
  /\ LET t == dim_tables[step]
         frame == dimensional_data[t.table]
         out == load_dimension_table(frame, t.table, t.key_column, store[t.table])
     IN IF frame.none
        THEN UNCHANGED <<store, loads>>
        ELSE /\ store' = [store EXCEPT ![t.table] = out.rows]
             /\ loads' = Append(loads, [table |-> t.table, count |-> out.count,
                                        raised |-> out.raised])
  /\ step' = step + 1
  /\ UNCHANGED <<pc, df, cleaned_df, transformed_df, dimensional_data, result,
                 runs, startStore, rerun>>

\* the fact load, then run_loading and run_pipeline return True
LoadFact ==
  /\ pc = "loading"
  /\ step = Len(dim_tables) + 1
  /\ LET frame == dimensional_data.fact_sales
         out == load_fact_table(frame, store)
     IN IF frame.none
        THEN UNCHANGED <<store, loads>>
        ELSE /\ store' = [store EXCEPT !.fact_sales = out.rows]
             /\ loads' = Append(loads, [table |-> "fact_sales", count |-> out.count,
                                        raised |-> out.raised])
  /\ pc' = "returned"
  /\ result' = TRUE
  /\ UNCHANGED <<df, cleaned_df, transformed_df, dimensional_data, step, runs,
                 startStore, rerun>>

Next ==
  \/ Ingest
  \/ IngestFails
  \/ Transform
  \/ CreateTables
  \/ LoadDimension
  \/ LoadFact

Spec == Init /\ [][Next]_vars

\* ------------------------------------------------------ run_transformation

\* run_transformation stage by stage, on an extract with a Profit column:
\* a run that has just ingested one of the StageBatches
StageInit ==
  /\ pc = "ingested"
  /\ df \in StageBatches
  /\ cleaned_df = NoFrame
  /\ transformed_df = NoFrame
  /\ dimensional_data = NoData
  /\ store = EmptyStore
  /\ step = 0
  /\ loads = <<>>
  /\ result = FALSE
  /\ runs = 1
  /\ startStore = EmptyStore
  /\ rerun = FALSE

\* cleaned_df = self.clean_data(df); when it raises, run_transformation
\* returns None and the run fails
CleanData ==
  /\ pc = "ingested"
  /\ IF CleanRaises(df)
     THEN pc' = "returned" /\ UNCHANGED cleaned_df
     ELSE pc' = "cleaned" /\ cleaned_df' = clean_data(df)
  /\ UNCHANGED <<df, transformed_df, dimensional_data, store, step, loads,
                 result, runs, startStore, rerun>>

\* transformed_df = self.transform_data(cleaned_df)
TransformData ==
  /\ pc = "cleaned"
  /\ transformed_df' = transform_data(cleaned_df)
  /\ pc' = "enriched"
  /\ UNCHANGED <<df, cleaned_df, dimensional_data, store, step, loads, result,
                 runs, startStore, rerun>>

StageNext ==
  \/ CleanData
  \/ TransformData

StageSpec == StageInit /\ [][StageNext]_vars

\* ---------------------------------------------------------------- helpers

IsPrefix(a, b) == Len(a) <= Len(b) /\ SubSeq(b, 1, Len(a)) = a

\* the rows the current run has appended to a table
Appended(table) ==
  SubSeq(store[table], Len(startStore[table]) + 1, Len(store[table]))

\* the load calls of this run that went to a table
LoadsOf(table) == {i \in DOMAIN loads : loads[i].table = table}

\* the frame of this run a table is loaded from
FrameOf(table) == dimensional_data[table]

\* -------------------------------------------------------------------- C1

\* C1: when a run has ingested the same batch as the run before it, then at
\* its return every dimension table holds as many rows as at its start (the
\* store the previous run left), and it has inserted no fact row whose
\* row_id the store already held.
C1_Idempotent ==
  (pc = "returned" /\ rerun) =>
    /\ \A t \in {"dim_customer", "dim_product", "dim_date"} :
         Len(store[t]) = Len(startStore[t])
    /\ \A x \in Range(Appended("fact_sales")) :
         \A y \in Range(startStore.fact_sales) : x.row_id # y.row_id

\* a second run over the batch of the first has loaded all four tables
\* again, over a store holding the first run's rows, row_id 0 among them
C1_Witness ==
  /\ pc = "returned" /\ rerun /\ result
  /\ Len(loads) = 4
  /\ startStore.dim_date # <<>> /\ startStore.dim_customer # <<>>
  /\ \E y \in Range(startStore.fact_sales) : y.row_id = 0

\* -------------------------------------------------------------------- C2

\* the fact rows this run offers to load_fact_table
Candidates == Range(dimensional_data.fact_sales.rows)

\* no constraint other than the key on row_id can refuse a candidate of
\* this run: its foreign keys resolve and its order_id is not null
NothingElseRefuses ==
  \A r \in Candidates :
    ~ForeignKeyViolation(r, store) /\ ~NotNullViolation("fact_sales", r)

RowIdsUnique(rows) ==
  \A i, j \in DOMAIN rows : rows[i].row_id = rows[j].row_id => i = j

\* C2: the fact table holds at most one row per row_id, and after a fact
\* load that no other constraint stands in the way of, the rows persisted
\* before are unchanged and every candidate's row_id is persisted (skipped
\* when it was, inserted when it was not).
C2_DedupInsert ==
  /\ RowIdsUnique(store.fact_sales)
  /\ (pc = "returned" /\ result /\ NothingElseRefuses) =>
       /\ IsPrefix(startStore.fact_sales, store.fact_sales)
       /\ \A r \in Candidates :
            \E x \in Range(store.fact_sales) : x.row_id = r.row_id

\* -------------------------------------------------------------------- C3

\* C3: in the date dimension a run builds, date_id is 1..n and an earlier
\* calendar date has the smaller date_id.
C3_AscendingDateIds ==
  (pc = "transformed" /\ ~dimensional_data.dim_date.none) =>
    LET rows == dimensional_data.dim_date.rows
    IN /\ \A i \in DOMAIN rows : rows[i].date_id = i
       /\ \A i, j \in DOMAIN rows :
            (rows[i].date # NaT /\ rows[j].date # NaT
               /\ Ordinal(rows[i].date) < Ordinal(rows[j].date))
              => rows[i].date_id < rows[j].date_id

\* -------------------------------------------------------------------- C4

\* C4: every foreign key of every persisted fact row is null or the key of
\* a row of the dimension table it refers to.
C4_ReferentialSoundness ==
  \A x \in Range(store.fact_sales) :
    \A fk \in ForeignKeys :
      \/ FkNull(fk, x)
      \/ \E d \in Range(store[fk.table]) : d[fk.ref] = x[fk.column]

\* a run whose dim_date load was rolled back has still inserted a fact row,
\* with date keys that are not null
C4_Witness ==
  /\ pc = "returned" /\ result
  /\ \E i \in LoadsOf("dim_date") : loads[i].raised
  /\ \E x \in Range(Appended("fact_sales")) :
       x.order_date_id # NullNum /\ x.ship_date_id # NullNum

\* -------------------------------------------------------------------- C5

\* the rows a table holds after its load of this run, computed from the
\* rows it held when the run started
RowsAfterLoad(table) ==
  IF table = "fact_sales"
  THEN load_fact_table(FrameOf(table), [store EXCEPT !.fact_sales = startStore.fact_sales]).rows
  ELSE load_dimension_table(FrameOf(table), table, PrimaryKey(table),
                            startStore[table]).rows

\* C5: in a finished loading in which some table's load failed, each failed
\* table holds exactly the rows it held before the run, every other loaded
\* table holds what its own load committed, every table with a frame was
\* attempted, and the run reports success.
C5_PartialSuccess ==
  (pc = "returned" /\ ~df.none /\ ~dimensional_data.none
     /\ \E i \in DOMAIN loads : loads[i].raised) =>
    /\ result = TRUE
    /\ \A t \in Tables : ~FrameOf(t).none => LoadsOf(t) # {}
    /\ \A i \in DOMAIN loads :
         IF loads[i].raised
         THEN store[loads[i].table] = startStore[loads[i].table]
         ELSE store[loads[i].table] = RowsAfterLoad(loads[i].table)

\* the dim_date load failed, and the run went on to insert a customer and a
\* product and to attempt the fact load
C5_Witness ==
  /\ pc = "returned" /\ result
  /\ \E i \in LoadsOf("dim_date") : loads[i].raised
  /\ Appended("dim_customer") # <<>>
  /\ Appended("dim_product") # <<>>
  /\ LoadsOf("fact_sales") # {}

\* -------------------------------------------------------------------- C6

\* C6: a run whose ingestion returned no dataset, or whose transformation
\* failed, returns False, has made no load call, and leaves the store (table
\* creation included) as it found it.
C6_FailedRunShortCircuits ==
  (pc = "returned" /\ (df.none \/ dimensional_data.none)) =>
    /\ result = FALSE
    /\ loads = <<>>
    /\ step = 0
    /\ store = startStore

\* a failed transformation, in a run over a store that holds fact rows
C6_Witness ==
  /\ pc = "returned" /\ ~df.none /\ dimensional_data.none
  /\ store.fact_sales # <<>>

\* -------------------------------------------------------------------- C7

\* C7: a run over a frame that lacks a critical column returns False and
\* loads nothing.
C7_MissingCriticalColumnAborts ==
  (pc = "returned" /\ ~df.none /\ ~(critical_columns \subseteq df.cols)) =>
    /\ result = FALSE
    /\ loads = <<>>
    /\ store = startStore

\* -------------------------------------------------------------------- C8

\* the natural key of a dimension table (the calendar date for dim_date)
NaturalKey(table) == IF table = "dim_date" THEN "date" ELSE PrimaryKey(table)

\* a candidate that meets no row of the table as the run found it, neither
\* on the primary key nor on the natural key
Fresh(r, t) ==
  \A x \in Range(startStore[t]) :
    x[PrimaryKey(t)] # r[PrimaryKey(t)] /\ x[NaturalKey(t)] # r[NaturalKey(t)]

\* C8: after a dimension load none of whose candidates a not-null column
\* refuses, and some of whose candidates carries a natural key the table
\* already held: the rows held before are unchanged, no natural key is held
\* twice, and the load did not fail -- it did not raise, and the candidates
\* that met no row of the table are in it.
C8_NaturalKeyConflictIgnored ==
  \A i \in DOMAIN loads :
    LET t == loads[i].table
        k == NaturalKey(t)
        cands == Range(FrameOf(t).rows)
    IN (/\ t # "fact_sales"
        /\ \A r \in cands : ~NotNullViolation(t, r)
        /\ \E r \in cands : \E x \in Range(startStore[t]) : x[k] = r[k]) =>
         /\ IsPrefix(startStore[t], store[t])
         /\ \A a, b \in DOMAIN store[t] : store[t][a][k] = store[t][b][k] => a = b
         /\ ~loads[i].raised
         /\ \A r \in cands : Fresh(r, t) => r \in Range(store[t])

\* -------------------------------------------------------------------- C9

LoadedTables == [i \in DOMAIN loads |-> loads[i].table]

\* the tables of `names` appear in the order `order` lists them
InOrder(names, order) ==
  \A i, j \in DOMAIN names :
    i < j => \E a, b \in DOMAIN order :
               a < b /\ order[a] = names[i] /\ order[b] = names[j]

\* C9 as stated: the loads of a run go customer, product, date, then facts
C9_CustomerProductDate ==
  InOrder(LoadedTables, <<"dim_customer", "dim_product", "dim_date", "fact_sales">>)

\* C9 as the code has it: the loads of a run go date, customer, product, and
\* the fact load is made only when the loop over the dimensions is done
C9_DateCustomerProduct ==
  /\ InOrder(LoadedTables, <<"dim_date", "dim_customer", "dim_product", "fact_sales">>)
  /\ LoadsOf("fact_sales") # {} => pc = "returned" /\ step = Len(dim_tables) + 1

\* a run that loaded all three dimensions and the facts
C9_Witness == pc = "returned" /\ Len(loads) = 4 /\ loads[4].table = "fact_sales"

\* ------------------------------------------------------------------- C10

\* the frame prepare_dimensional_data is given in this run
Transformed == transform_data(clean_data(df))

KeysOf(rows, k) == {rows[i][k] : i \in DOMAIN rows}

\* C10 as stated: one row per distinct customer_id, one per distinct product_id
C10_OneRowPerKey ==
  (pc = "transformed") =>
    /\ ~dimensional_data.dim_customer.none =>
         Len(dimensional_data.dim_customer.rows)
           = Cardinality(KeysOf(dimensional_data.dim_customer.rows, "customer_id"))
    /\ ~dimensional_data.dim_product.none =>
         Len(dimensional_data.dim_product.rows)
           = Cardinality(KeysOf(dimensional_data.dim_product.rows, "product_id"))

\* the distinct projections of the frame's rows on the given columns
Tuples(frame, columns) ==
  {[c \in Range(columns) |-> frame.rows[i][c]] : i \in DOMAIN frame.rows}

\* C10 as the code has it: each dimension has one row per distinct
\* combination of the key and the descriptive attributes
C10_OneRowPerTuple ==
  (pc = "transformed") =>
    /\ ~dimensional_data.dim_customer.none =>
         Len(dimensional_data.dim_customer.rows)
           = Cardinality(Tuples(Transformed, CustomerColumns))
    /\ ~dimensional_data.dim_product.none =>
         Len(dimensional_data.dim_product.rows)
           = Cardinality(Tuples(Transformed, ProductColumns))

\* a batch of two lines in which one customer has two cities and one
\* product two categories
C10_Witness ==
  /\ pc = "transformed"
  /\ Len(Transformed.rows) = 2
  /\ Len(dimensional_data.dim_customer.rows) = 2
  /\ Len(dimensional_data.dim_product.rows) = 2
  /\ Cardinality(KeysOf(dimensional_data.dim_customer.rows, "customer_id")) = 1

\* ------------------------------------------------------------------- C11

\* C11: the count each load call of a run reported is the number of rows
\* the call added to its table, so a run over the batch of the run before
\* it reports 0 for every table.
C11_CountIsRowsAdded ==
  /\ \A i \in DOMAIN loads :
       loads[i].count = Len(Appended(loads[i].table))
  /\ (pc = "returned" /\ rerun) =>
       \A i \in DOMAIN loads : loads[i].count = 0

\* ------------------------------------------------------------------- C12

\* the rows of a frame in which no critical column is missing
Complete(frame) ==
  {r \in Range(frame.rows) : \A c \in critical_columns : ~IsNa(c, r[c])}

\* the cleaned row `o` is the source row `r`: it agrees with it in every
\* cell the source has a value in, the dates apart (they are parsed)
CleanedFrom(o, r) ==
  \A c \in DOMAIN r :
    (~IsNa(c, r[c]) /\ c \notin Range(date_columns)) => o[c] = r[c]

\* C12: on a frame that has the four critical columns clean_data does not
\* fail; its output has no row with a missing critical cell, every input
\* row with the four present is in it, it holds nothing else, and no row
\* twice.
C12_CleanKeepsCompleteRows ==
  (critical_columns \subseteq df.cols) =>
    /\ pc # "returned"
    /\ pc \in {"cleaned", "enriched"} =>
         LET out == cleaned_df.rows
         IN /\ \A i \in DOMAIN out : \A c \in critical_columns : ~IsNa(c, out[i][c])
            /\ \A r \in Complete(df) : \E i \in DOMAIN out : CleanedFrom(out[i], r)
            /\ \A i \in DOMAIN out : \E r \in Complete(df) : CleanedFrom(out[i], r)
            /\ \A i, j \in DOMAIN out : out[i] = out[j] => i = j
            /\ Len(out) <= Cardinality(Complete(df))

\* a frame of three different lines, one of them without its Customer ID,
\* has come out of clean_data with two rows
C12_Witness ==
  /\ pc = "cleaned"
  /\ critical_columns \subseteq df.cols
  /\ Len(df.rows) = 3
  /\ Cardinality({i \in DOMAIN df.rows : IsNa("Customer ID", df.rows[i]["Customer ID"])}) = 1
  /\ Cardinality({df.rows[i]["Row ID"] : i \in DOMAIN df.rows}) = 2
  /\ Cardinality(Range(df.rows)) = 3
  /\ Len(cleaned_df.rows) = 2

\* ------------------------------------------------------------------- C13

\* a source row with sales = 100 whose profit is missing: the frame has no
\* Profit column, or it has one and the row's cell is missing
ProfitMissing(frame, r) ==
  /\ r["Sales"] = 100
  /\ "Profit" \in frame.cols => IsNa("Profit", r["Profit"])

\* C13: every complete source row with sales = 100 and a missing profit has
\* come out of clean_data and transform_data with profit = 20 and
\* profit_margin = 0.2 (20 hundredths), with or without a Profit column in
\* the frame.
C13_MissingProfitDefaults ==
  (pc = "enriched" /\ critical_columns \subseteq df.cols) =>
    \A r \in Complete(df) :
      ProfitMissing(df, r) =>
        \E i \in DOMAIN transformed_df.rows :
          LET o == transformed_df.rows[i]
          IN CleanedFrom(o, r) /\ o["Profit"] = 20 /\ o["Profit Margin"] = 20

\* ------------------------------------------------------------------- C14

\* the fact rows this run's load tries to insert, in order: its candidates
\* less those skipped as existing
Inserts == NewRecords(dimensional_data.fact_sales.rows, startStore.fact_sales)

\* the k-th insert cannot be persisted: its order_id is null, one of its
\* foreign keys has no row to refer to, or its row_id is that of a row
\* persisted before the load or of an earlier insert of the load
InsertFails(k) ==
  LET r == Inserts[k]
  IN \/ r.order_id = NullStr
     \/ \E fk \in ForeignKeys :
          /\ ~FkNull(fk, r)
          /\ ~\E d \in Range(store[fk.table]) : d[fk.ref] = r[fk.column]
     \/ \E y \in Range(startStore.fact_sales) : y.row_id = r.row_id
     \/ \E j \in 1..(k - 1) : Inserts[j].row_id = r.row_id

\* C14: when some insert of a run's fact load fails, the fact table is
\* exactly as it was before the load, and the load reported 0.
C14_FactBatchRollsBack ==
  (pc = "returned" /\ LoadsOf("fact_sales") # {}
     /\ \E k \in DOMAIN Inserts : InsertFails(k)) =>
    /\ store.fact_sales = startStore.fact_sales
    /\ \A i \in LoadsOf("fact_sales") : loads[i].count = 0 /\ loads[i].raised

\* a fact load over a table that held rows, whose first insert could be
\* persisted and whose second could not
C14_Witness ==
  /\ pc = "returned" /\ LoadsOf("fact_sales") # {}
  /\ startStore.fact_sales # <<>>
  /\ Len(Inserts) = 2
  /\ ~InsertFails(1) /\ InsertFails(2)

\* ------------------------------------------------------------------- C15

\* the date values of the frame prepare_dimensional_data was given
BatchDates ==
  {transformed_df.rows[i][c] : i \in DOMAIN transformed_df.rows,
                               c \in Range(date_columns)}

\* C15: when a run is over a batch in which some order or ship date did not
\* parse, the date dimension it built has one row per calendar date of the
\* batch and none for the missing-date marker, each fact row's date keys are
\* null where its date is the marker and else the date_id of the dimension
\* row of its date, the run succeeds and its load of the date dimension
\* does not fail.
C15_MissingDateMarker ==
  (pc = "returned" /\ ~transformed_df.none
     /\ Range(date_columns) \subseteq transformed_df.cols
     /\ NaT \in BatchDates) =>
    LET dim == dimensional_data.dim_date.rows
        fact == dimensional_data.fact_sales.rows
        Key(d) == IF d = NaT THEN NullNum
                  ELSE (CHOOSE x \in Range(dim) : x.date = d).date_id
    IN /\ result = TRUE
       /\ {dim[i].date : i \in DOMAIN dim} = BatchDates \ {NaT}
       /\ Len(dim) = Cardinality(BatchDates \ {NaT})
       /\ \A i \in DOMAIN fact :
            /\ fact[i].order_date_id = Key(transformed_df.rows[i]["Order Date"])
            /\ fact[i].ship_date_id = Key(transformed_df.rows[i]["Ship Date"])
       /\ \A i \in LoadsOf("dim_date") : ~loads[i].raised

\* ------------------------------------------------------------------- C16

\* the date key `key` of a persisted fact row identifies the persisted
\* dim_date row of the calendar date `d`
DenotesDate(key, d) ==
  \E x \in Range(store.dim_date) : x.date_id = key /\ x.date = d

\* C16: when a run has returned, each date key of each fact row it has
\* persisted is null or identifies the persisted dim_date row whose date is
\* the order date, or the ship date, of the line the fact row was built
\* from.
C16_DateKeysDenoteOwnDates ==
  (pc = "returned" /\ ~transformed_df.none
     /\ Range(date_columns) \subseteq transformed_df.cols) =>
    \A x \in Range(Appended("fact_sales")) :
      \A i \in DOMAIN transformed_df.rows :
        LET r == transformed_df.rows[i]
        IN r["Row ID"] = x.row_id =>
             /\ x.order_date_id = NullNum
                  \/ DenotesDate(x.order_date_id, r["Order Date"])
             /\ x.ship_date_id = NullNum
                  \/ DenotesDate(x.ship_date_id, r["Ship Date"])

====
